---------------------------- MODULE Spec2Model ----------------------------
(***************************************************************************)
(* Model of the Rusthonian UUID binding (src/src/lib.rs): the PyUuid       *)
(* value class and the module functions new_v4, parse_str, nil, max and    *)
(* is_valid, together with the operations of the `uuid` crate they call.   *)
(*                                                                         *)
(* A UUID is its 16 stored bytes, a sequence of 16 numbers in 0..255       *)
(* (byte k of the source, counted from 0, is element k+1).  Text is a      *)
(* sequence of byte codes, as the parser reads it (str::as_bytes).  TLC's  *)
(* integers are 32 bits wide, so a u128 is kept as 8 limbs of 16 bits and  *)
(* a u64 as 4 limbs, most significant limb first.                          *)
(***************************************************************************)
EXTENDS Integers, Sequences, FiniteSets, TLC

VARIABLES pc, cur, op, arg, ret

vars == <<pc, cur, op, arg, ret>>

-----------------------------------------------------------------------------
(* Bounds of the checked inputs *)

\* from_bytes is called with byte sequences of every length 0..MaxLen
MaxLen == 32

\* text inputs carry 0..MaxPad extra trailing characters
MaxPad == 3

-----------------------------------------------------------------------------
(* Bit arithmetic on naturals *)

RECURSIVE BitAnd(_, _)
BitAnd(x, y) ==
    IF x = 0 \/ y = 0 THEN 0
    ELSE (IF x % 2 = 1 /\ y % 2 = 1 THEN 1 ELSE 0) + 2 * BitAnd(x \div 2, y \div 2)

RECURSIVE BitOr(_, _)
BitOr(x, y) ==
    IF x = 0 THEN y
    ELSE IF y = 0 THEN x
    ELSE (IF x % 2 = 1 \/ y % 2 = 1 THEN 1 ELSE 0) + 2 * BitOr(x \div 2, y \div 2)

RECURSIVE Pow2(_)
Pow2(n) == IF n = 0 THEN 1 ELSE 2 * Pow2(n - 1)

\* x >> n and the u8 result of x << n
Shr(x, n) == x \div Pow2(n)
Shl8(x, n) == (x * Pow2(n)) % 256

-----------------------------------------------------------------------------
(* Values passed across the binding *)

\* the length of a UUID's storage, tested by from_bytes
UuidLen == 16

NoValue == <<>>

Ok(ty, v) == [kind |-> "ok", ty |-> ty, val |-> v]
Err(exc, msg) == [kind |-> "err", ty |-> exc, val |-> msg]
Panic == [kind |-> "panic", ty |-> "unwrap", val |-> <<>>]
NoRet == [kind |-> "none", ty |-> "none", val |-> <<>>]

\* Option<u8>: None is the empty sequence, Some(v) the sequence of v
None == <<>>
Some(v) == <<v>>

NAMESPACE_DNS == <<107, 167, 184, 16, 157, 173, 17, 209, 128, 180, 0, 192, 79, 212, 48, 200>>
NAMESPACE_URL == <<107, 167, 184, 17, 157, 173, 17, 209, 128, 180, 0, 192, 79, 212, 48, 200>>
NAMESPACE_OID == <<107, 167, 184, 18, 157, 173, 17, 209, 128, 180, 0, 192, 79, 212, 48, 200>>
NAMESPACE_X500 == <<107, 167, 184, 20, 157, 173, 17, 209, 128, 180, 0, 192, 79, 212, 48, 200>>


-----------------------------------------------------------------------------
(* The `uuid` crate's binary conversions, as lib.rs calls them *)

\* <[u8] as TryInto<[u8; 16]>>::try_into: fails unless the slice has 16 bytes
TryInto(bs) ==
    IF Len(bs) = UuidLen THEN Ok("array", [i \in 1..UuidLen |-> bs[i]])
    ELSE Err("TryFromSliceError", "could not convert slice to array")

\* u128::to_be_bytes on limbs: limb k gives bytes 2k-2 and 2k-1
ToBeBytes(n) ==
    [i \in 1..(2 * Len(n)) |->
        IF i % 2 = 1 THEN Shr(n[(i + 1) \div 2], 8) ELSE n[i \div 2] % 256]

\* u128::from_be_bytes into limbs
FromBeBytes(bs) ==
    [k \in 1..(Len(bs) \div 2) |-> bs[2 * k - 1] * 256 + bs[2 * k]]

\* Uuid::from_u128(v) = Uuid::from_bytes(v.to_be_bytes())
UuidFromU128(n) == ToBeBytes(n)

\* Uuid::as_u128(&self) = u128::from_be_bytes(*self.as_bytes())
UuidAsU128(u) == FromBeBytes(u)

\* (x as u128) for a u64 x: four zero limbs above it
WidenU64(x) == <<0, 0, 0, 0>> \o x

\* (v << 64) and (v >> 64) on a u128
Shl64(n) == SubSeq(n, 5, 8) \o <<0, 0, 0, 0>>
Shr64(n) == <<0, 0, 0, 0>> \o SubSeq(n, 1, 4)

\* (v as u64) for a u128 v: the low four limbs
TruncU64(n) == SubSeq(n, 5, 8)

LimbOr(m, n) == [k \in 1..Len(m) |-> BitOr(m[k], n[k])]

\* Uuid::from_u64_pair(high, low) = from_u128(((high as u128) << 64) | low as u128)
UuidFromU64Pair(high, low) ==
    UuidFromU128(LimbOr(Shl64(WidenU64(high)), WidenU64(low)))

\* as_u64_pair with the two halves in the wrong order
UuidAsU64Pair_swapped(u) ==
    LET value == UuidAsU128(u)
    IN  <<TruncU64(value), TruncU64(Shr64(value))>>

\* Uuid::as_u64_pair: ((value >> 64) as u64, value as u64)
UuidAsU64Pair(u) ==
    LET value == UuidAsU128(u)
    IN  <<TruncU64(Shr64(value)), TruncU64(value)>>

U128Min == [k \in 1..8 |-> 0]
U128Max == [k \in 1..8 |-> 65535]

\* Uuid::nil() and Uuid::max()
UuidNil == UuidFromU128(U128Min)
UuidMax == UuidFromU128(U128Max)

\* is_nil looking at the high 64 bits only
UuidIsNil_high_only(u) == TruncU64(Shr64(UuidAsU128(u))) = <<0, 0, 0, 0>>

\* Uuid::is_nil: self.as_u128() == u128::MIN;  Uuid::is_max: == u128::MAX
UuidIsNil(u) == UuidAsU128(u) = U128Min
UuidIsMax(u) == UuidAsU128(u) = U128Max

\* Uuid::get_variant: the top bits of byte 8
UuidGetVariant(u) ==
    LET x == u[9]
    IN  IF BitAnd(x, 128) = 0 THEN "NCS"
        ELSE IF BitAnd(x, 192) = 128 THEN "RFC4122"
        ELSE IF BitAnd(x, 224) = 192 THEN "Microsoft"
        ELSE IF BitAnd(x, 224) = 224 THEN "Future"
        ELSE "Future"

\* Uuid::new_v4 = Builder::from_random_bytes(rng::bytes()):
\* with_variant(RFC4122) sets byte 8 to (b & 0x3f) | 0x80,
\* with_version(Random) sets byte 6 to (b & 0x0f) | (4 << 4)
UuidNewV4(random_bytes) ==
    [i \in 1..UuidLen |->
        IF i = 7 THEN BitOr(BitAnd(random_bytes[i], 15), Shl8(4, 4))
        ELSE IF i = 9 THEN BitOr(BitAnd(random_bytes[i], 63), 128)
        ELSE random_bytes[i]]

\* the derived Ord of Uuid([u8; 16]): lexicographic comparison of the bytes
RECURSIVE CmpFrom(_, _, _)
CmpFrom(a, b, i) ==
    IF i > Len(a) THEN "Equal"
    ELSE IF a[i] < b[i] THEN "Less"
    ELSE IF a[i] > b[i] THEN "Greater"
    ELSE CmpFrom(a, b, i + 1)

\* the comparison run from the last byte to the first (little-endian order)
RECURSIVE CmpDownFrom(_, _, _)
CmpDownFrom(a, b, i) ==
    IF i < 1 THEN "Equal"
    ELSE IF a[i] < b[i] THEN "Less"
    ELSE IF a[i] > b[i] THEN "Greater"
    ELSE CmpDownFrom(a, b, i - 1)

UuidCmp_from_last(a, b) == CmpDownFrom(a, b, Len(a))

UuidCmp(a, b) == CmpFrom(a, b, 1)

\* the derived PartialEq of Uuid([u8; 16])
UuidEq(a, b) == \A i \in 1..UuidLen : a[i] = b[i]

-----------------------------------------------------------------------------
(* The `uuid` crate's text form: Display (to_string) and FromStr *)

\* b'-', b'{', b'}'
Hyphen == 45
OpenBrace == 123
CloseBrace == 125

\* b"urn:uuid:"
UrnPrefix == <<117, 114, 110, 58, 117, 117, 105, 100, 58>>

\* LOWER = b"0123456789abcdef"
LOWER == <<48, 49, 50, 51, 52, 53, 54, 55, 56, 57, 97, 98, 99, 100, 101, 102>>

\* HEX_TABLE: the value of a hexadecimal digit of either case, 0xff otherwise
HexTable(c) ==
    IF c \in 48..57 THEN c - 48
    ELSE IF c \in 97..102 THEN c - 97 + 10
    ELSE IF c \in 65..70 THEN c - 65 + 10
    ELSE 255

\* SHL4_TABLE: the u8 result of h << 4
Shl4Table(h) == Shl8(h, 4)

\* the two digits of one byte in the wrong order
HexPair_swapped(x) == <<LOWER[BitAnd(x, 15) + 1], LOWER[Shr(x, 4) + 1]>>

\* the two digits of one byte: lut[x >> 4], lut[x & 0x0f]
HexPair(x) == <<LOWER[Shr(x, 4) + 1], LOWER[BitAnd(x, 15) + 1]>>

RECURSIVE HexGroup(_, _, _)
HexGroup(src, from, to) ==
    IF from > to THEN <<>> ELSE HexPair(src[from]) \o HexGroup(src, from + 1, to)

\* format_hyphenated(src, upper = false): groups of 4, 2, 2, 2 and 6 bytes,
\* a hyphen after each group but the last
FormatHyphenated(src) ==
    HexGroup(src, 1, 4) \o <<Hyphen>> \o HexGroup(src, 5, 6) \o <<Hyphen>>
        \o HexGroup(src, 7, 8) \o <<Hyphen>> \o HexGroup(src, 9, 10) \o <<Hyphen>>
        \o HexGroup(src, 11, 16)

\* <Uuid as Display>::fmt, used by to_string and format!
UuidToString(u) == FormatHyphenated(u)

\* the message of the crate's parse error; its wording is not modelled
ParseErrorText == "invalid UUID text"

ParseFail == Err("Error", ParseErrorText)

\* parse_simple: 32 hexadecimal digits, two per byte
ParseSimple(s) ==
    IF Len(s) # 32 THEN ParseFail
    ELSE LET h(i) == HexTable(s[i])
             bad == \E i \in 1..16 : BitOr(h(2 * i - 1), h(2 * i)) = 255
         IN  IF bad THEN ParseFail
             ELSE Ok("array", [i \in 1..16 |-> BitOr(Shl4Table(h(2 * i - 1)), h(2 * i))])

\* positions = [0, 4, 9, 14, 19, 24, 28, 32]: where each group of four digits starts
Positions == <<0, 4, 9, 14, 19, 24, 28, 32>>

\* parse_hyphenated: hyphens at 8, 13, 18 and 23, four digits at each position
ParseHyphenated(s) ==
    IF Len(s) # 36 THEN ParseFail
    ELSE IF <<s[9], s[14], s[19], s[24]>> # <<Hyphen, Hyphen, Hyphen, Hyphen>> THEN ParseFail
    ELSE LET h(j, d) == HexTable(s[Positions[j] + d + 1])
             bad == \E j \in 1..8 :
                        BitOr(BitOr(h(j, 0), h(j, 1)), BitOr(h(j, 2), h(j, 3))) = 255
         IN  IF bad THEN ParseFail
             ELSE Ok("array",
                     [i \in 1..16 |->
                         LET j == (i + 1) \div 2
                         IN  IF i % 2 = 1 THEN BitOr(Shl4Table(h(j, 0)), h(j, 1))
                             ELSE BitOr(Shl4Table(h(j, 2)), h(j, 3))])

\* try_parse: the shape of the input is chosen by its length
TryParse(input) ==
    LET n == Len(input)
    IN  IF n = 32 THEN ParseSimple(input)
        ELSE IF n = 36 THEN ParseHyphenated(input)
        ELSE IF n = 38 /\ input[1] = OpenBrace /\ input[n] = CloseBrace
            THEN ParseHyphenated(SubSeq(input, 2, n - 1))
        ELSE IF n = 45 /\ SubSeq(input, 1, 9) = UrnPrefix
            THEN ParseHyphenated(SubSeq(input, 10, n))
        ELSE ParseFail

\* <Uuid as FromStr>::from_str
UuidFromStr(s) ==
    LET r == TryParse(s)
    IN  IF r.kind = "ok" THEN Ok("Uuid", r.val) ELSE r

-----------------------------------------------------------------------------
(* The binding: PyUuid's methods and the module functions of lib.rs *)

\* map_err(|e| PyValueError(e.to_string()))
MapErr(r) == IF r.kind = "err" THEN Err("ValueError", r.val) ELSE r

\* PyUuid::new
PyUuidNew(uuid) == Ok("UUID", uuid)

new_from_str(s) ==
    LET uuid == MapErr(UuidFromStr(s))
    IN  IF uuid.kind = "err" THEN uuid ELSE PyUuidNew(uuid.val)

\* from_bytes with the length test weakened to "too short"
from_bytes_short_only(bytes_slice) ==
    IF Len(bytes_slice) < UuidLen
        THEN Err("ValueError", "UUID must be exactly 16 bytes")
    ELSE LET conv == TryInto(bytes_slice)
         IN  IF conv.kind = "err" THEN Panic ELSE PyUuidNew(conv.val)

\* from_bytes with the received length put into the message
from_bytes_with_length(bytes_slice) ==
    IF Len(bytes_slice) # UuidLen
        THEN Err("ValueError",
                 "UUID must be exactly 16 bytes, got " \o ToString(Len(bytes_slice)))
    ELSE LET conv == TryInto(bytes_slice)
         IN  IF conv.kind = "err" THEN Panic ELSE PyUuidNew(conv.val)

from_bytes(bytes_slice) ==
    IF Len(bytes_slice) # UuidLen
        THEN Err("ValueError", "UUID must be exactly 16 bytes")
    ELSE LET conv == TryInto(bytes_slice)
         IN  IF conv.kind = "err" THEN Panic ELSE PyUuidNew(conv.val)

from_u128(value) == PyUuidNew(UuidFromU128(value))

from_u64_pair(high, low) == PyUuidNew(UuidFromU64Pair(high, low))

__str__(self) == Ok("str", UuidToString(self))

\* format!("UUID('{}')", self.inner)
__repr__(self) ==
    Ok("str", <<85, 85, 73, 68, 40, 39>> \o UuidToString(self) \o <<39, 41>>)

bytes(self) == Ok("bytes", [i \in 1..Len(self) |-> self[i]])

as_u128(self) == Ok("u128", UuidAsU128(self))

as_u64_pair(self) == Ok("pair", UuidAsU64Pair(self))

\* "TODO: Implement proper version extraction": the stub returns None
version(self) == Ok("option", None)

\* variant with the Future arm missing, so that Future falls to the default
variant_no_future(self) ==
    LET v == UuidGetVariant(self)
    IN  IF v = "NCS" THEN Ok("name", "NCS")
        ELSE IF v = "RFC4122" THEN Ok("name", "RFC4122")
        ELSE IF v = "Microsoft" THEN Ok("name", "Microsoft")
        ELSE Ok("name", "Unknown")

variant(self) ==
    LET v == UuidGetVariant(self)
    IN  IF v = "NCS" THEN Ok("name", "NCS")
        ELSE IF v = "RFC4122" THEN Ok("name", "RFC4122")
        ELSE IF v = "Microsoft" THEN Ok("name", "Microsoft")
        ELSE IF v = "Future" THEN Ok("name", "Future")
        ELSE Ok("name", "Unknown")

is_nil(self) == Ok("bool", UuidIsNil(self))

is_max(self) == Ok("bool", UuidIsMax(self))

__eq__(self, other) == Ok("bool", UuidEq(self, other))

__lt__(self, other) == Ok("bool", UuidCmp(self, other) = "Less")

__le__(self, other) == Ok("bool", UuidCmp(self, other) # "Greater")

__gt__(self, other) == Ok("bool", UuidCmp(self, other) = "Greater")

__ge__(self, other) == Ok("bool", UuidCmp(self, other) # "Less")

new_v4(random_bytes) == PyUuidNew(UuidNewV4(random_bytes))

parse_str(s) ==
    LET uuid == MapErr(UuidFromStr(s))
    IN  IF uuid.kind = "err" THEN uuid ELSE PyUuidNew(uuid.val)

nil == PyUuidNew(UuidNil)

max == PyUuidNew(UuidMax)

\* is_valid deciding by the length of the text alone
is_valid_length_only(s) == Ok("bool", Len(s) \in {32, 36, 38, 45})

is_valid(s) == Ok("bool", UuidFromStr(s).kind = "ok")

-----------------------------------------------------------------------------
(* The inputs the caller draws from *)

Bases == {"zero", "ones", "ramp", "dns"}

\* byte i (from 0) of a base pattern: 00.., ff.., 00 11 22 .. ff, the DNS namespace
PatternByte(base, i) ==
    IF base = "zero" THEN 0
    ELSE IF base = "ones" THEN 255
    ELSE IF base = "ramp" THEN (i * 17) % 256
    ELSE NAMESPACE_DNS[(i % 16) + 1]

\* values of byte 6: version nibbles 0, 1, 1, 4, 4, 8, 9 and 15
B6Vals == {0, 16, 17, 64, 79, 128, 144, 255}

\* values of byte 8: both ends of each variant's range
B8Vals == {0, 127, 128, 191, 192, 223, 224, 255}

BytesInput(base, len, b6, b8) ==
    [i \in 1..len |-> IF i = 7 THEN b6 ELSE IF i = 9 THEN b8 ELSE PatternByte(base, i - 1)]

\* 16-byte inputs
Bytes16 == {BytesInput(base, UuidLen, b6, b8) : base \in Bases, b6 \in B6Vals, b8 \in B8Vals}

\* byte sequences of every length 0..MaxLen
BytesInputs ==
    Bytes16 \cup {BytesInput(base, len, 64, 128) : base \in Bases, len \in 0..MaxLen}

\* what the random source may yield to new_v4
RandomInputs == Bytes16

\* the right-hand sides of comparisons
CmpSamples ==
    {BytesInput(base, UuidLen, b6, b8) : base \in {"zero", "ones", "ramp"},
                                        b6 \in {0, 255}, b8 \in {0, 255}}

LimbBases == {"zero", "ones", "ramp"}

PatternLimb(base, k) ==
    IF base = "zero" THEN 0
    ELSE IF base = "ones" THEN 65535
    ELSE (k * 4660) % 65536

\* limb 4 holds bytes 6 and 7, limb 5 bytes 8 and 9
W4Vals == {0, 255, 256, 4096, 16384, 65535}
W5Vals == {0, 32767, 32768, 49152, 57344, 65535}

U128Inputs ==
    {[k \in 1..8 |-> IF k = 4 THEN w4 ELSE IF k = 5 THEN w5 ELSE PatternLimb(base, k)] :
        base \in LimbBases, w4 \in W4Vals, w5 \in W5Vals}

U64Inputs ==
    {[k \in 1..4 |-> IF k = j THEN w ELSE f] :
        j \in {1, 4}, w \in {0, 1, 255, 256, 16384, 32768, 65535}, f \in {0, 65535}}

\* "6ba7b8109dad11d180b400c04fd430c8"
DnsDigits ==
    <<54, 98, 97, 55, 98, 56, 49, 48, 57, 100, 97, 100, 49, 49, 100, 49,
      56, 48, 98, 52, 48, 48, 99, 48, 52, 102, 100, 52, 51, 48, 99, 56>>

\* "0123456789abcdefFEDCBA9876543210"
MixedDigits ==
    <<48, 49, 50, 51, 52, 53, 54, 55, 56, 57, 97, 98, 99, 100, 101, 102,
      70, 69, 68, 67, 66, 65, 57, 56, 55, 54, 53, 52, 51, 50, 49, 48>>

\* bytes that are no hexadecimal digit: space - / : @ G ` g and a non-ASCII byte
NonHex == {32, 45, 47, 58, 64, 71, 96, 103, 195}

GoodDigits ==
    {DnsDigits, MixedDigits} \cup {[i \in 1..32 |-> c] : c \in {48, 57, 65, 70, 97, 102}}

BadDigits ==
    {[i \in 1..32 |-> IF i = p THEN c ELSE MixedDigits[i]] : p \in {1, 14, 32}, c \in NonHex}

Shapes ==
    {"hyphenated", "simple", "braced", "urn", "bracedSimple", "urnSimple",
     "openOnly", "swapped", "upperUrn", "grouped4"}

Grouped(d, a, b, c, e) ==
    SubSeq(d, 1, a) \o <<Hyphen>> \o SubSeq(d, a + 1, b) \o <<Hyphen>>
        \o SubSeq(d, b + 1, c) \o <<Hyphen>> \o SubSeq(d, c + 1, e) \o <<Hyphen>>
        \o SubSeq(d, e + 1, 32)

\* 32 digits laid out in one of the shapes
Layout(shape, d) ==
    LET hy == Grouped(d, 8, 12, 16, 20)
    IN  IF shape = "hyphenated" THEN hy
        ELSE IF shape = "simple" THEN d
        ELSE IF shape = "braced" THEN <<OpenBrace>> \o hy \o <<CloseBrace>>
        ELSE IF shape = "urn" THEN UrnPrefix \o hy
        ELSE IF shape = "bracedSimple" THEN <<OpenBrace>> \o d \o <<CloseBrace>>
        ELSE IF shape = "urnSimple" THEN UrnPrefix \o d
        ELSE IF shape = "openOnly" THEN <<OpenBrace>> \o hy \o <<48>>
        ELSE IF shape = "swapped" THEN <<CloseBrace>> \o hy \o <<OpenBrace>>
        ELSE IF shape = "upperUrn" THEN <<85, 82, 78, 58, 85, 85, 73, 68, 58>> \o hy
        ELSE Grouped(d, 4, 12, 16, 20)

\* n trailing '0' characters
Pad(n) == [i \in 1..n |-> 48]

\* "not-a-uuid"
NotAUuid == <<110, 111, 116, 45, 97, 45, 117, 117, 105, 100>>

TextInputs ==
    {Layout(shape, d) \o Pad(n) :
        shape \in Shapes, d \in GoodDigits \cup BadDigits, n \in 0..MaxPad}
    \cup {NotAUuid, <<>>}

-----------------------------------------------------------------------------
(* The caller: it calls a constructor or a module function with a drawn   *)
(* input (pc "idle" -> "returned"), may keep the object it got ("held"),  *)
(* calls one method on it ("inspected"), may pass what the method gave    *)
(* back to a constructor ("rebuilt"), and lets go of everything ("idle"). *)
(* op, arg and ret are the last call, its argument and what it returned.  *)

Init ==
    /\ pc = "idle"
    /\ cur = NoValue
    /\ op = "none"
    /\ arg = <<>>
    /\ ret = NoRet

\* what the last method call returned, when it is of type ty
Fed(ty) == IF pc = "inspected" /\ ret.kind = "ok" /\ ret.ty = ty THEN {ret.val} ELSE {}

Call(name, a, r) ==
    /\ pc \in {"idle", "inspected"}
    /\ pc' = IF pc = "idle" THEN "returned" ELSE "rebuilt"
    /\ op' = name
    /\ arg' = a
    /\ ret' = r
    /\ UNCHANGED cur

Method(name, a, r) ==
    /\ pc' = "inspected"
    /\ op' = name
    /\ arg' = a
    /\ ret' = r
    /\ UNCHANGED cur

NewFromStr ==
    \E s \in (IF pc = "idle" THEN TextInputs ELSE Fed("str")) :
        Call("new_from_str", s, new_from_str(s))

FromBytes ==
    \E bs \in (IF pc = "idle" THEN BytesInputs ELSE Fed("bytes")) :
        Call("from_bytes", bs, from_bytes(bs))

FromU128 ==
    \E value \in (IF pc = "idle" THEN U128Inputs ELSE Fed("u128")) :
        Call("from_u128", value, from_u128(value))

FromU64Pair ==
    \E p \in (IF pc = "idle" THEN U64Inputs \X U64Inputs ELSE Fed("pair")) :
        Call("from_u64_pair", p, from_u64_pair(p[1], p[2]))

ParseStr ==
    \E s \in (IF pc = "idle" THEN TextInputs ELSE Fed("str")) :
        Call("parse_str", s, parse_str(s))

IsValid ==
    \E s \in (IF pc = "idle" THEN TextInputs ELSE Fed("str")) :
        Call("is_valid", s, is_valid(s))

NewV4 ==
    /\ pc = "idle"
    /\ \E random_bytes \in RandomInputs : Call("new_v4", random_bytes, new_v4(random_bytes))

Nil ==
    /\ pc = "idle"
    /\ Call("nil", <<>>, nil)

Max ==
    /\ pc = "idle"
    /\ Call("max", <<>>, max)

\* the module attributes NAMESPACE_DNS, NAMESPACE_URL, NAMESPACE_OID, NAMESPACE_X500
Namespace ==
    /\ pc = "idle"
    /\ \E c \in {NAMESPACE_DNS, NAMESPACE_URL, NAMESPACE_OID, NAMESPACE_X500} :
            Call("NAMESPACE", <<>>, PyUuidNew(c))

\* the caller keeps the object a call returned
Keep ==
    /\ pc = "returned"
    /\ ret.kind = "ok"
    /\ ret.ty = "UUID"
    /\ pc' = "held"
    /\ cur' = ret.val
    /\ UNCHANGED <<op, arg, ret>>

\* the caller lets go of the object and the last result
Drop ==
    /\ pc # "idle"
    /\ pc' = "idle"
    /\ cur' = NoValue
    /\ op' = "none"
    /\ arg' = <<>>
    /\ ret' = NoRet

Str ==
    /\ pc = "held"
    /\ Method("__str__", <<>>, __str__(cur))

Repr ==
    /\ pc = "held"
    /\ Method("__repr__", <<>>, __repr__(cur))

Bytes ==
    /\ pc = "held"
    /\ Method("bytes", <<>>, bytes(cur))

AsU128 ==
    /\ pc = "held"
    /\ Method("as_u128", <<>>, as_u128(cur))

AsU64Pair ==
    /\ pc = "held"
    /\ Method("as_u64_pair", <<>>, as_u64_pair(cur))

Version ==
    /\ pc = "held"
    /\ Method("version", <<>>, version(cur))

Variant ==
    /\ pc = "held"
    /\ Method("variant", <<>>, variant(cur))

IsNil ==
    /\ pc = "held"
    /\ Method("is_nil", <<>>, is_nil(cur))

IsMax ==
    /\ pc = "held"
    /\ Method("is_max", <<>>, is_max(cur))

Eq ==
    /\ pc = "held"
    /\ \E other \in CmpSamples \cup {cur} : Method("__eq__", other, __eq__(cur, other))

Lt ==
    /\ pc = "held"
    /\ \E other \in CmpSamples \cup {cur} : Method("__lt__", other, __lt__(cur, other))

Le ==
    /\ pc = "held"
    /\ \E other \in CmpSamples \cup {cur} : Method("__le__", other, __le__(cur, other))

Gt ==
    /\ pc = "held"
    /\ \E other \in CmpSamples \cup {cur} : Method("__gt__", other, __gt__(cur, other))

Ge ==
    /\ pc = "held"
    /\ \E other \in CmpSamples \cup {cur} : Method("__ge__", other, __ge__(cur, other))

Next ==
    \/ NewFromStr \/ FromBytes \/ FromU128 \/ FromU64Pair
    \/ ParseStr \/ IsValid \/ NewV4 \/ Nil \/ Max \/ Namespace
    \/ Keep \/ Drop
    \/ Str \/ Repr \/ Bytes \/ AsU128 \/ AsU64Pair
    \/ Version \/ Variant \/ IsNil \/ IsMax
    \/ Eq \/ Lt \/ Le \/ Gt \/ Ge

Spec == Init /\ [][Next]_vars

-----------------------------------------------------------------------------
(* Properties *)

\* the high four bits of byte 6
VersionNibble(u) == Shr(u[7], 4)

\* C1: version() returns the high 4 bits of byte 6 when that nibble is in 1..8
\* and no version otherwise (0x40 gives 4, 0x10 gives 1, nil gives none).
C1_VersionIsHighNibble ==
    op = "version" =>
        ret = Ok("option", IF VersionNibble(cur) \in 1..8
                           THEN Some(VersionNibble(cur)) ELSE None)

\* C2: from_bytes fails with an invalid-input error exactly when the input's
\* length is not 16, never panics, and stores the 16 input bytes in order.
C2_FromBytesLength ==
    op = "from_bytes" =>
        /\ ret.kind \in {"ok", "err"}
        /\ (ret.kind = "err") <=> (Len(arg) # 16)
        /\ ret.kind = "err" => ret.ty = "ValueError"
        /\ ret.kind = "ok" =>
              /\ ret.ty = "UUID"
              /\ Len(ret.val) = 16
              /\ \A i \in 1..16 : ret.val[i] = arg[i]

C2_Witness ==
    /\ op = "from_bytes"
    /\ Len(arg) = UuidLen + 1
    /\ ret.kind = "err"

\* C3 as claimed: the error of a rejected input identifies the length received,
\* so inputs of two different rejected lengths get different errors.
C3_ErrorCarriesLength ==
    (op = "from_bytes" /\ ret.kind = "err") =>
        \A bs \in BytesInputs :
            (Len(bs) # UuidLen /\ Len(bs) # Len(arg)) => from_bytes(bs) # ret

\* C3 as amended: a rejected input of any length gets the same ValueError with
\* the fixed message "UUID must be exactly 16 bytes"; the length is not in it.
C3_ErrorIsFixedMessage ==
    (op = "from_bytes" /\ Len(arg) # UuidLen) =>
        /\ ret.kind = "err"
        /\ ret.ty = "ValueError"
        /\ ret.val = "UUID must be exactly 16 bytes"

C3_Witness ==
    /\ op = "from_bytes"
    /\ Len(arg) = 0
    /\ ret.kind = "err"

\* C4: variant() is decided by the top bits of byte 8 alone: 0x00..0x7F NCS,
\* 0x80..0xBF RFC4122, 0xC0..0xDF Microsoft, 0xE0..0xFF Future, never Unknown.
C4_VariantFromByte8 ==
    op = "variant" =>
        /\ ret.kind = "ok"
        /\ ret.val # "Unknown"
        /\ ret.val = (IF cur[9] <= 127 THEN "NCS"
                      ELSE IF cur[9] <= 191 THEN "RFC4122"
                      ELSE IF cur[9] <= 223 THEN "Microsoft"
                      ELSE "Future")

C4_Witness ==
    /\ op = "variant"
    /\ cur[9] = 223
    /\ ret.val = "Microsoft"

\* m < n for unsigned integers given as limbs, most significant first
LimbsLess(m, n) ==
    \E k \in 1..Len(m) : m[k] < n[k] /\ \A j \in 1..(k - 1) : m[j] = n[j]

CmpOps == {"__eq__", "__lt__", "__le__", "__gt__", "__ge__"}

\* what the comparison named o returns for a and b
CmpResult(o, a, b) ==
    IF o = "__eq__" THEN __eq__(a, b)
    ELSE IF o = "__lt__" THEN __lt__(a, b)
    ELSE IF o = "__le__" THEN __le__(a, b)
    ELSE IF o = "__gt__" THEN __gt__(a, b)
    ELSE __ge__(a, b)

\* C5: exactly one of A<B, A==B, A>B; <= is (< or ==), >= is (> or ==); A<B
\* exactly when as_u128(A) < as_u128(B); A==B exactly when all bytes agree.
C5_TotalOrder ==
    op \in CmpOps =>
        LET lt == __lt__(cur, arg).val
            eq == __eq__(cur, arg).val
            gt == __gt__(cur, arg).val
        IN  /\ ret = CmpResult(op, cur, arg)
            /\ ret.kind = "ok"
            /\ (lt /\ ~eq /\ ~gt) \/ (~lt /\ eq /\ ~gt) \/ (~lt /\ ~eq /\ gt)
            /\ __le__(cur, arg).val = (lt \/ eq)
            /\ __ge__(cur, arg).val = (gt \/ eq)
            /\ lt = LimbsLess(as_u128(cur).val, as_u128(arg).val)
            /\ gt = LimbsLess(as_u128(arg).val, as_u128(cur).val)
            /\ eq = (cur = arg)

C5_Witness ==
    /\ op = "__lt__"
    /\ ret.val = TRUE
    /\ cur[7] < arg[7]
    /\ cur[9] > arg[9]

\* C6: from_bytes(bytes(V)), from_u128(as_u128(V)) and
\* from_u64_pair(as_u64_pair(V)) give V back; as_u128 is the big-endian reading
\* of the 16 bytes; as_u64_pair is (first 8 bytes, last 8 bytes), so that
\* as_u128(V) = high * 2^64 + low.
C6_BinaryRoundTrip ==
    /\ (pc = "rebuilt" /\ op \in {"from_bytes", "from_u128", "from_u64_pair"}) =>
          ret = Ok("UUID", cur)
    /\ op = "bytes" => (Len(ret.val) = 16 /\ \A i \in 1..16 : ret.val[i] = cur[i])
    /\ op = "as_u128" =>
          /\ Len(ret.val) = 8
          /\ \A k \in 1..8 : ret.val[k] = 256 * cur[2 * k - 1] + cur[2 * k]
    /\ op = "as_u64_pair" =>
          /\ Len(ret.val[1]) = 4
          /\ Len(ret.val[2]) = 4
          /\ \A k \in 1..4 : ret.val[1][k] = 256 * cur[2 * k - 1] + cur[2 * k]
          /\ \A k \in 1..4 : ret.val[2][k] = 256 * cur[2 * k + 7] + cur[2 * k + 8]
          /\ as_u128(cur).val = ret.val[1] \o ret.val[2]

C6_Witness ==
    /\ pc = "rebuilt"
    /\ op = "from_u64_pair"
    /\ ret.kind = "ok"
    /\ ret.val = cur
    /\ cur = NAMESPACE_DNS

LowerHexCodes == (48..57) \cup (97..102)

\* the canonical text: 36 characters, hyphens at indices 8, 13, 18 and 23
\* (from 0), lowercase hexadecimal digits elsewhere
IsCanonical(s) ==
    /\ Len(s) = 36
    /\ \A i \in 1..36 :
          IF i \in {9, 14, 19, 24} THEN s[i] = Hyphen ELSE s[i] \in LowerHexCodes

\* C7: __str__(V) is the canonical 36-character text, and parse_str and the
\* constructor turn that text back into V.
C7_TextRoundTrip ==
    /\ op = "__str__" => (ret.kind = "ok" /\ IsCanonical(ret.val))
    /\ (pc = "rebuilt" /\ op \in {"parse_str", "new_from_str"}
            /\ arg = __str__(cur).val) =>
          ret = Ok("UUID", cur)

C7_Witness ==
    /\ pc = "rebuilt"
    /\ op = "parse_str"
    /\ Len(arg) = 36
    /\ ret.kind = "ok"
    /\ ret.val = cur
    /\ cur = NAMESPACE_DNS

\* C8: every value new_v4() returns has variant() RFC4122 and version() 4:
\* the high nibble of byte 6 is 0100 and the top two bits of byte 8 are 10.
C8_V4VariantAndVersion ==
    (op = "new_v4") =>
        /\ ret.kind = "ok"
        /\ VersionNibble(ret.val) = 4
        /\ Shr(ret.val[9], 6) = 2
        /\ variant(ret.val) = Ok("name", "RFC4122")
        /\ version(ret.val) = Ok("option", Some(4))

\* C9: is_valid(s) is true exactly when parse_str(s) succeeds, exactly when
\* UUID(s) succeeds, and then both give the same value; is_valid never fails;
\* "not-a-uuid" is not valid and a canonical text is.
C9_IsValidIffParses ==
    /\ op = "is_valid" =>
          /\ ret.kind = "ok"
          /\ ret.val = (parse_str(arg).kind = "ok")
          /\ ret.val = (new_from_str(arg).kind = "ok")
          /\ arg = NotAUuid => ret.val = FALSE
          /\ IsCanonical(arg) => ret.val = TRUE
    /\ op = "parse_str" =>
          /\ (ret.kind = "ok") = is_valid(arg).val
          /\ ret.kind = "ok" => ret = new_from_str(arg)
    /\ op = "new_from_str" =>
          /\ (ret.kind = "ok") = is_valid(arg).val
          /\ ret.kind = "ok" => ret = parse_str(arg)

C9_Witness ==
    /\ op = "is_valid"
    /\ arg = Layout("hyphenated", DnsDigits)
    /\ ret.val = TRUE

AllBytes(u, b) == \A i \in 1..UuidLen : u[i] = b

Constructors ==
    {"new_from_str", "from_bytes", "from_u128", "from_u64_pair", "new_v4",
     "parse_str", "nil", "max", "NAMESPACE"}

\* C10: is_nil(V) exactly when all 16 bytes are 0x00 and is_max(V) exactly
\* when all are 0xFF; nil() is all zeros and max() all ones; no new_v4 value
\* is nil or max; no value is both.
C10_NilMaxIdentity ==
    /\ op = "is_nil" => ret = Ok("bool", AllBytes(cur, 0))
    /\ op = "is_max" => ret = Ok("bool", AllBytes(cur, 255))
    /\ op = "nil" => (AllBytes(ret.val, 0) /\ is_nil(ret.val).val)
    /\ op = "max" => (AllBytes(ret.val, 255) /\ is_max(ret.val).val)
    /\ op = "new_v4" => (~is_nil(ret.val).val /\ ~is_max(ret.val).val)
    /\ (op \in Constructors /\ ret.kind = "ok") =>
          /\ is_nil(ret.val).val = AllBytes(ret.val, 0)
          /\ is_max(ret.val).val = AllBytes(ret.val, 255)
          /\ ~(is_nil(ret.val).val /\ is_max(ret.val).val)

C10_Witness ==
    /\ op = "is_nil"
    /\ ret.val = FALSE
    /\ \A i \in 1..8 : cur[i] = 0

=============================================================================
